---- MODULE Spec2Model ----
(***************************************************************************)
(* A model of the rai_digital_twin update logic (time advance, token-state *)
(* policies and reducer), of the backtesting loss functions and of the     *)
(* subgraph retrieval loops.                                               *)
(*                                                                         *)
(* Python values are encoded as follows.  None is the record None; a dict  *)
(* is Dict(f) with f the function from its keys to its values; a raised    *)
(* exception is Error(type); a TokenState namedtuple is a record with its  *)
(* four fields.  The values of params['perform_backtesting'] are named by  *)
(* strings: "True" and "False" are the two bool singletons, "None" is      *)
(* None and "1" is the int 1 (a truthy value that is not the object True). *)
(***************************************************************************)
EXTENDS Integers, Sequences, FiniteSets, TLC

VARIABLES
    mode,           \* which part of the program this behaviour runs
    params,         \* the parameter bundle of the simulation run
    initial_state,  \* the state the run was started from
    state,          \* the current simulation state
    history,        \* the rows recorded so far, the initial state first
    signals,        \* the signals of the last step, by policy
    run_status,     \* "running", or "failed" once a policy has raised
    args,           \* the arguments of the function under call
    call,           \* the function that was called, "" before the call
    locals,         \* the local variables of the function under call
    log,            \* the warnings logged so far
    result          \* what the call returned or raised

simVars == <<params, initial_state, state, history, signals, run_status>>

callVars == <<args, call, locals, log, result>>

vars == <<mode, simVars, callVars>>

----------------------------------------------------------------------------
(* Bounds *)

\* The run executes the steps at timesteps 0 .. MaxTimestep - 1.
MaxTimestep == 3

----------------------------------------------------------------------------
(* Python values *)

None == [py |-> "None"]

Dict(f) == [py |-> "dict", map |-> f]

EmptyDict == Dict(<<>>)

Error(type) == [py |-> "Error", type |-> type]

IsError(v) == v.py = "Error"

\* dict.get(key, default)
Get(d, key, default) == IF key \in DOMAIN d.map THEN d.map[key] ELSE default

\* The partial functions from subsets of K to V: the dicts with keys in K.
PartialMaps(K, V) == UNION {[D -> V] : D \in SUBSET K}

TokenState(rai_reserve, eth_reserve, rai_debt, eth_locked) ==
    [py |-> "TokenState",
     rai_reserve |-> rai_reserve, eth_reserve |-> eth_reserve,
     rai_debt |-> rai_debt, eth_locked |-> eth_locked]

----------------------------------------------------------------------------
(* parts/token_state.py *)

\* The body of prepare_action_state_history is `pass`: it returns None.
prepare_action_state_history(p, hist, st) == None

\* The token states the prediction collaborator may return.
PredictedActions == {TokenState(9, 9, 9, 9), TokenState(5, 6, 7, 8)}

\* fit_predict_action(states, user_action_params): the set of its possible
\* outcomes, one new token-state record or a failure.
fit_predict_action(states, user_action_params) ==
    PredictedActions \cup {Error("Exception")}

\* p_user_action, with new_action the collaborator's outcome: an exception
\* of the collaborator leaves p_user_action as it is.
p_user_action(p, hist, st, new_action) ==
    IF p.perform_backtesting = "False"
    THEN IF IsError(new_action) THEN new_action
         ELSE Dict("token_state" :> new_action)
    ELSE EmptyDict

\* The call p_user_action makes to fit_predict_action.
fit_predict_action_call(p, hist, st) ==
    [states |-> prepare_action_state_history(p, hist, st),
     user_action_params |-> p.user_action_params]

p_backtesting_no_fallback(p, st) ==
    IF p.perform_backtesting = "True"
    THEN LET t == st.timestep
             backtesting_data == p.backtesting_data
         IN  IF backtesting_data = None
             THEN Error("AttributeError")
             ELSE IF t \in DOMAIN backtesting_data.map
                  THEN Dict("token_state" :> backtesting_data.map[t])
                  ELSE Error("KeyError")
    ELSE EmptyDict

p_backtesting(p, st) ==
    IF p.perform_backtesting = "True"
    THEN LET t == st.timestep
             backtesting_data == p.backtesting_data
         IN  IF backtesting_data = None
             THEN Error("AttributeError")
             ELSE LET current_data == Get(backtesting_data, t, st.token_state)
                  IN  Dict("token_state" :> current_data)
    ELSE EmptyDict

s_token_state_merge_wins(st, signal) ==
    LET token_state == st.token_state
        new_state == TokenState(
            Get(signal, "rai_reserve", token_state.rai_reserve),
            Get(signal, "eth_reserve", token_state.eth_reserve),
            Get(signal, "rai_debt", token_state.rai_debt),
            Get(signal, "eth_locked", token_state.eth_locked))
        state_override == Get(signal, "token_state", None)
    IN  <<"token_state",
          IF DOMAIN signal.map = {"token_state"} /\ state_override # None
          THEN state_override ELSE new_state>>

s_token_state(st, signal) ==
    LET token_state == st.token_state
        new_state == TokenState(
            Get(signal, "rai_reserve", token_state.rai_reserve),
            Get(signal, "eth_reserve", token_state.eth_reserve),
            Get(signal, "rai_debt", token_state.rai_debt),
            Get(signal, "eth_locked", token_state.eth_locked))
        state_override == Get(signal, "token_state", None)
    IN  <<"token_state",
          IF state_override # None THEN state_override ELSE new_state>>

----------------------------------------------------------------------------
(* parts/time.py *)

p_resolve_time_passed_prev_default(p, st) ==
    LET current_time == st.seconds_passed
        t == st.timestep
        heights == p.heights
    IN  IF heights = None
        THEN Dict("timedelta" :> p.extrapolation_timedelta)
        ELSE LET delta_height == Get(heights, t, current_time)
                                     - Get(heights, t - 1, current_time)
                 delta == delta_height * p.block_time
             IN  Dict("timedelta" :> delta)

p_resolve_time_passed(p, st) ==
    LET current_time == st.seconds_passed
        t == st.timestep
        heights == p.heights
    IN  IF heights = None
        THEN Dict("timedelta" :> p.extrapolation_timedelta)
        ELSE LET delta_height == Get(heights, t, current_time)
                                     - Get(heights, t - 1, 0)
                 delta == delta_height * p.block_time
             IN  Dict("timedelta" :> delta)

s_seconds_passed_overwrite(st, signal) ==
    <<"seconds_passed", signal.map["timedelta"]>>

s_seconds_passed(st, signal) ==
    <<"seconds_passed", st.seconds_passed + signal.map["timedelta"]>>

----------------------------------------------------------------------------
(* The simulation run *)

\* The signals of the policies of one block, merged into one signal.
MergeSignals(a, b) == Dict(a.map @@ b.map)

NoCall ==
    /\ args = None
    /\ call = ""
    /\ locals = None
    /\ log = <<>>
    /\ result = None

NoSignals == [user_action |-> None, backtesting |-> None, time |-> None,
              token |-> None]

HistoricalRows == {TokenState(2, 2, 2, 2), TokenState(3, 4, 5, 6)}

BlockHeights == {990, 1000}

PerformBacktestingValues == {"True", "False", "None", "1"}

Timesteps == 0 .. (MaxTimestep - 1)

SimParams ==
    [perform_backtesting : PerformBacktestingValues,
     backtesting_data : {None}
         \cup {Dict(f) : f \in PartialMaps(Timesteps, HistoricalRows)},
     heights : {None}
         \cup {Dict(f) : f \in PartialMaps(Timesteps, BlockHeights)},
     block_time : {13},
     extrapolation_timedelta : {3600},
     user_action_params : {None}]

SimInitialStates ==
    [timestep : {0},
     seconds_passed : {0, 7},
     token_state : {TokenState(1, 2, 3, 4)}]

SimInit ==
    /\ mode = "simulation"
    /\ params \in SimParams
    /\ initial_state \in SimInitialStates
    /\ state = initial_state
    /\ history = <<initial_state>>
    /\ signals = NoSignals
    /\ run_status = "running"
    /\ NoCall

\* One timestep of the run: the time block, then the token-state block.
\* The runner sets the new row's timestep after the reducers have run.
StepOk(new_action) ==
    LET sig_time == p_resolve_time_passed(params, state)
        sig_user == p_user_action(params, history, state, new_action)
        sig_back == p_backtesting(params, state)
        sig_token == MergeSignals(sig_user, sig_back)
        new_state == [timestep |-> state.timestep + 1,
                      seconds_passed |-> s_seconds_passed(state, sig_time)[2],
                      token_state |-> s_token_state(state, sig_token)[2]]
    IN  /\ ~IsError(sig_user)
        /\ ~IsError(sig_back)
        /\ state' = new_state
        /\ history' = Append(history, new_state)
        /\ signals' = [user_action |-> sig_user, backtesting |-> sig_back,
                       time |-> sig_time, token |-> sig_token]
        /\ IF params.perform_backtesting = "False"
           THEN /\ call' = "fit_predict_action"
                /\ args' = fit_predict_action_call(params, history, state)
                /\ result' = new_action
           ELSE UNCHANGED <<call, args, result>>
        /\ UNCHANGED <<mode, params, initial_state, run_status, locals, log>>

Step ==
    /\ mode = "simulation"
    /\ run_status = "running"
    /\ state.timestep < MaxTimestep
    /\ \E new_action \in fit_predict_action(
              prepare_action_state_history(params, history, state),
              params.user_action_params) :
          StepOk(new_action)

\* A policy raises: the run ends with the exception.
StepRaises ==
    /\ mode = "simulation"
    /\ run_status = "running"
    /\ state.timestep < MaxTimestep
    /\ IsError(p_backtesting(params, state))
    /\ run_status' = "failed"
    /\ signals' = [NoSignals EXCEPT !.backtesting = p_backtesting(params, state)]
    /\ UNCHANGED <<mode, params, initial_state, state, history, callVars>>

\* The collaborator raises inside p_user_action: the run ends with it.
StepPredictionRaises ==
    /\ mode = "simulation"
    /\ run_status = "running"
    /\ state.timestep < MaxTimestep
    /\ \E new_action \in fit_predict_action(
              prepare_action_state_history(params, history, state),
              params.user_action_params) :
          /\ IsError(p_user_action(params, history, state, new_action))
          /\ result' = new_action
    /\ run_status' = "failed"
    /\ signals' = NoSignals
    /\ call' = "fit_predict_action"
    /\ args' = fit_predict_action_call(params, history, state)
    /\ UNCHANGED <<mode, params, initial_state, state, history, locals, log>>

SimNext == Step \/ StepRaises \/ StepPredictionRaises

SimSpec == SimInit /\ [][SimNext]_vars

----------------------------------------------------------------------------
(* Properties of the simulation run *)

\* The row recorded at timestep k: the state after the steps 0 .. k - 1.
Row(k) == history[k + 1]

LastRowIndex == Len(history) - 1

\* The state the last step was computed from.
PreviousRow == Row(LastRowIndex - 1)

StepHasRun == mode = "simulation" /\ signals.user_action # None

IsNoOp(signal) == signal = EmptyDict

CarriesTokenState(signal) ==
    signal.py = "dict" /\ "token_state" \in DOMAIN signal.map

Backtesting ==
    /\ mode = "simulation"
    /\ params.perform_backtesting = "True"
    /\ params.backtesting_data # None

\* The most recent historical row at or before timestep t, or initial.
RECURSIVE MostRecentRow(_, _, _)
MostRecentRow(data, t, initial) ==
    IF t < 0 THEN initial
    ELSE IF t \in DOMAIN data.map THEN data.map[t]
    ELSE MostRecentRow(data, t - 1, initial)

\* C1: in backtesting mode with backtesting_data a mapping, no step raises;
\* a step at a timestep with no historical row returns the current
\* token_state as its signal and leaves token_state as it was; and the
\* token_state recorded after the step at timestep t is the most recent
\* historical row at or before t, or the initial token_state.
C1_MissingRowCarriesForward ==
    Backtesting =>
        /\ run_status = "running"
        /\ (StepHasRun /\ PreviousRow.timestep
                \notin DOMAIN params.backtesting_data.map) =>
              /\ signals.backtesting
                     = Dict("token_state" :> PreviousRow.token_state)
              /\ state.token_state = PreviousRow.token_state
        /\ \A k \in 1 .. LastRowIndex :
              Row(k).token_state
                  = MostRecentRow(params.backtesting_data, k - 1,
                                  initial_state.token_state)

\* A row at timestep 0, none at timestep 1, and both steps have run.
C1_Witness ==
    /\ Backtesting
    /\ StepHasRun
    /\ state.timestep = 2
    /\ 0 \in DOMAIN params.backtesting_data.map
    /\ 1 \notin DOMAIN params.backtesting_data.map
    /\ state.token_state = params.backtesting_data.map[0]
    /\ state.token_state # initial_state.token_state

\* C3: at every step exactly one of p_user_action and p_backtesting
\* returns the empty signal and the other a signal carrying token_state,
\* whatever the value of perform_backtesting.
C3_ExactlyOneNoOp ==
    StepHasRun =>
        \/ /\ IsNoOp(signals.user_action)
           /\ CarriesTokenState(signals.backtesting)
        \/ /\ IsNoOp(signals.backtesting)
           /\ CarriesTokenState(signals.user_action)

HeightsConfigured == mode = "simulation" /\ params.heights # None

\* C4: with a heights mapping configured, the step at timestep t returns
\* timedelta = (H_cur - H_prev) * block_time, H_cur being heights[t] or
\* else the running seconds_passed and H_prev heights[t - 1] or else 0;
\* no lookup raises, and heights {5: 1000, 4: 990} with block_time 13
\* give 130 at timestep 5.
C4_HeightDelta ==
    /\ (HeightsConfigured /\ StepHasRun) =>
          LET t == PreviousRow.timestep
              h == params.heights.map
              H_cur == IF t \in DOMAIN h THEN h[t]
                       ELSE PreviousRow.seconds_passed
              H_prev == IF (t - 1) \in DOMAIN h THEN h[t - 1] ELSE 0
          IN  signals.time
                  = Dict("timedelta" :> (H_cur - H_prev) * params.block_time)
    /\ p_resolve_time_passed(
           [heights |-> Dict(5 :> 1000 @@ 4 :> 990), block_time |-> 13,
            extrapolation_timedelta |-> 3600],
           [timestep |-> 5, seconds_passed |-> 0]).map["timedelta"] = 130

\* The step at timestep 1 found both heights and returned (1000 - 990) * 13.
C4_Witness ==
    /\ HeightsConfigured
    /\ StepHasRun
    /\ PreviousRow.timestep = 1
    /\ {0, 1} \subseteq DOMAIN params.heights.map
    /\ signals.time.map["timedelta"] = 130

\* Every step adds its timedelta signal to seconds_passed.
StepAddsTimedelta ==
    StepHasRun =>
        state.seconds_passed
            = PreviousRow.seconds_passed + signals.time.map["timedelta"]

\* With no heights mapping the row after n steps holds initial + n *
\* extrapolation_timedelta.
ExtrapolationSum ==
    params.heights = None =>
        \A n \in 0 .. LastRowIndex :
            Row(n).seconds_passed
                = initial_state.seconds_passed
                      + n * params.extrapolation_timedelta

\* C5 as stated: every step adds its timedelta to seconds_passed; after n
\* steps seconds_passed is initial + n * extrapolation_timedelta with no
\* heights mapping, and initial + (heights[n] - heights[0]) * block_time
\* when heights has an entry for every timestep 0 .. n.
C5_SumFromHeightsZero ==
    mode = "simulation" =>
        /\ StepAddsTimedelta
        /\ ExtrapolationSum
        /\ params.heights # None =>
              \A n \in 1 .. LastRowIndex :
                  (0 .. n) \subseteq DOMAIN params.heights.map =>
                      Row(n).seconds_passed
                          = initial_state.seconds_passed
                                + (params.heights.map[n]
                                       - params.heights.map[0])
                                      * params.block_time

\* C5, amended: every step adds its timedelta to seconds_passed; after n
\* steps seconds_passed is initial + n * extrapolation_timedelta with no
\* heights mapping, and initial + heights[n - 1] * block_time when heights
\* has an entry for every timestep 0 .. n - 1 (no timestep is negative):
\* the first step looks up the timesteps 0 and -1 and adds (heights[0] - 0)
\* * block_time.  Over the n steps after the first k, which look up the
\* timesteps k - 1 .. k + n - 1, all present, seconds_passed grows by
\* (heights[k + n - 1] - heights[k - 1]) * block_time.
C5_SecondsPassedAccumulates ==
    mode = "simulation" =>
        /\ StepAddsTimedelta
        /\ ExtrapolationSum
        /\ params.heights # None =>
              \A n \in 1 .. LastRowIndex :
                  (0 .. (n - 1)) \subseteq DOMAIN params.heights.map =>
                      Row(n).seconds_passed
                          = initial_state.seconds_passed
                                + params.heights.map[n - 1] * params.block_time
        /\ params.heights # None =>
              \A k \in 1 .. LastRowIndex : \A n \in 1 .. LastRowIndex :
                  (/\ k + n <= LastRowIndex
                   /\ (k - 1) .. (k + n - 1) \subseteq DOMAIN params.heights.map)
                  =>
                      Row(k + n).seconds_passed
                          = Row(k).seconds_passed
                                + (params.heights.map[k + n - 1]
                                       - params.heights.map[k - 1])
                                      * params.block_time

\* Two steps have run from the start on the heights 990, 1000, 1000: the
\* first added 990 * 13, the second 10 * 13.
C5_Witness ==
    /\ HeightsConfigured
    /\ state.timestep = 2
    /\ DOMAIN params.heights.map = {0, 1, 2}
    /\ params.heights.map[0] = 990
    /\ params.heights.map[1] = 1000
    /\ params.heights.map[2] = 1000
    /\ Row(1).seconds_passed = initial_state.seconds_passed + 12870
    /\ state.seconds_passed = initial_state.seconds_passed + 13000

----------------------------------------------------------------------------
(* The token-state reducer on its own *)

NoSim ==
    /\ params = None
    /\ initial_state = None
    /\ state = None
    /\ history = <<>>
    /\ signals = NoSignals
    /\ run_status = "idle"

TokenFields == {"rai_reserve", "eth_reserve", "rai_debt", "eth_locked"}

\* The signals handed to the reducer: any of the four fields, and no
\* token_state, a token_state of None or a whole TokenState.
ReducerSignals ==
    {Dict(f @@ o) :
         f \in PartialMaps(TokenFields, {10, 20}),
         o \in {<<>>, "token_state" :> None,
                "token_state" :> TokenState(9, 9, 9, 9)}}

ReducerStates ==
    {[token_state |-> ts] :
         ts \in {TokenState(1, 2, 3, 4), TokenState(1, 1, 1, 1)}}

ReducerInit ==
    /\ mode = "reducer"
    /\ NoSim
    /\ args \in [state : ReducerStates, signal : ReducerSignals]
    /\ call = ""
    /\ locals = None
    /\ log = <<>>
    /\ result = None

Call_s_token_state ==
    /\ mode = "reducer"
    /\ call = ""
    /\ call' = "s_token_state"
    /\ result' = s_token_state(args.state, args.signal)
    /\ UNCHANGED <<mode, simVars, args, locals, log>>

ReducerNext == Call_s_token_state

ReducerSpec == ReducerInit /\ [][ReducerNext]_vars

\* The field of the result the claim describes: the signal's if present,
\* the current TokenState's if absent.
MergedField(field) ==
    IF field \in DOMAIN args.signal.map
    THEN args.signal.map[field]
    ELSE args.state.token_state[field]

CarriesOverride ==
    /\ "token_state" \in DOMAIN args.signal.map
    /\ args.signal.map["token_state"] # None

\* C2: s_token_state returns ('token_state', R), R being the signal's
\* token_state record whenever the signal carries one, whatever its other
\* fields, and otherwise the field-by-field merge of the signal over the
\* current TokenState: {'rai_reserve': 10} on TokenState(1, 2, 3, 4) gives
\* TokenState(10, 2, 3, 4).
C2_OverrideWinsOverMerge ==
    /\ call = "s_token_state" =>
          /\ result[1] = "token_state"
          /\ CarriesOverride => result[2] = args.signal.map["token_state"]
          /\ ~CarriesOverride =>
                result[2] = TokenState(MergedField("rai_reserve"),
                                       MergedField("eth_reserve"),
                                       MergedField("rai_debt"),
                                       MergedField("eth_locked"))
    /\ s_token_state([token_state |-> TokenState(1, 2, 3, 4)],
                     Dict("rai_reserve" :> 10))
           = <<"token_state", TokenState(10, 2, 3, 4)>>

\* A signal with a whole token_state and two fields besides was applied.
C2_Witness ==
    /\ call = "s_token_state"
    /\ args.state.token_state = TokenState(1, 1, 1, 1)
    /\ DOMAIN args.signal.map = {"token_state", "rai_reserve", "eth_locked"}
    /\ result[2] = TokenState(9, 9, 9, 9)

----------------------------------------------------------------------------
(* backtesting.py *)

\* The trajectories have 0 .. MaxRows rows.
MaxRows == 2

Abs(n) == IF n < 0 THEN 0 - n ELSE n

RECURSIVE GCD(_, _)
GCD(a, b) == IF b = 0 THEN a ELSE GCD(b, a % b)

\* A float is a number or NaN; the numbers of the model are the rationals
\* num / den in lowest terms, den > 0, so that a quotient is exact.
Fraction(n, d) ==
    LET g == GCD(Abs(n), d)
    IN  [py |-> "float", nan |-> FALSE, num |-> n \div g, den |-> d \div g]

Float(v) == Fraction(v, 1)

NaN == [py |-> "float", nan |-> TRUE, num |-> 0, den |-> 1]

\* a + b, a - b and a * b of two floats that are not NaN.
FloatAdd(a, b) == Fraction(a.num * b.den + b.num * a.den, a.den * b.den)

FloatSub(a, b) == Fraction(a.num * b.den - b.num * a.den, a.den * b.den)

FloatMul(a, b) == Fraction(a.num * b.num, a.den * b.den)

\* A pandas Series on the default index 0 .. n - 1.
Series(values) == [py |-> "Series", values |-> values]

\* A pandas DataFrame: its columns, each the values of a Series.
DataFrame(columns) == [py |-> "DataFrame", columns |-> columns]

\* df[col]
GetItem(df, col) ==
    IF col \in DOMAIN df.columns THEN Series(df.columns[col])
    ELSE Error("KeyError")

\* y - y_hat: aligned on the union of the two indexes, NaN where either
\* side has no row.
SeriesSub(y, y_hat) ==
    LET n == IF Len(y.values) >= Len(y_hat.values)
             THEN Len(y.values) ELSE Len(y_hat.values)
    IN  Series([i \in 1 .. n |->
            IF i <= Len(y.values) /\ i <= Len(y_hat.values)
               /\ ~y.values[i].nan /\ ~y_hat.values[i].nan
            THEN FloatSub(y.values[i], y_hat.values[i])
            ELSE NaN])

\* error ** 2
SeriesSquare(error) ==
    Series([i \in 1 .. Len(error.values) |->
        IF error.values[i].nan THEN NaN
        ELSE FloatMul(error.values[i], error.values[i])])

generic_loss(sim_df, test_df, col) ==
    LET y == GetItem(test_df, col)
        y_hat == GetItem(sim_df, col)
    IN  IF IsError(y) THEN y
        ELSE IF IsError(y_hat) THEN y_hat
        ELSE LET error == SeriesSub(y, y_hat)
                 loss == SeriesSquare(error)
             IN  loss

\* generic_metric_loss(col) is the closure over col; the model keeps col.
generic_metric_loss(col) == col

\* definition.loss_function(sim_df, test_df)
loss_function(definition, sim_df, test_df) ==
    generic_loss(sim_df, test_df, definition.loss_function)

ValidationMetricDefinition(metric_type, loss) ==
    [metric_type |-> metric_type, loss_function |-> loss]

VALIDATION_METRICS ==
    Dict([metric \in {"redemption_price", "redemption_rate"} |->
            ValidationMetricDefinition("float", generic_metric_loss(metric))])

\* dict.values(): a view object, not a list.
DictValues(d) == [py |-> "dict_values", of |-> d]

\* The floats of a value that is a float or a Series, as a sequence.
FloatsOf(v) == IF v.py = "Series" THEN v.values ELSE <<v>>

RECURSIVE FloatsOfAll(_)
FloatsOfAll(f) ==
    IF DOMAIN f = {} THEN <<>>
    ELSE LET k == CHOOSE k \in DOMAIN f : TRUE
         IN  FloatsOf(f[k]) \o FloatsOfAll([j \in DOMAIN f \ {k} |-> f[j]])

RECURSIVE SumFloats(_)
SumFloats(fs) ==
    IF fs = <<>> THEN Float(0) ELSE FloatAdd(Head(fs), SumFloats(Tail(fs)))

\* The mean of the floats of a list, the sum divided by the count: NaN for
\* an empty list or a NaN element.
MeanOfFloats(fs) ==
    IF fs = <<>> \/ \E i \in 1 .. Len(fs) : fs[i].nan THEN NaN
    ELSE LET total == SumFloats(fs)
         IN  Fraction(total.num, total.den * Len(fs))

\* np.mean(a).  A dict_values view becomes a 0-d object array whose sum is
\* the view itself, and dividing it by the count raises TypeError.
np_mean(a) ==
    IF a.py = "dict_values" THEN Error("TypeError")
    ELSE MeanOfFloats(a.items)

validation_loss_mean_of_list(validation_metrics) ==
    np_mean([py |-> "list", items |-> FloatsOfAll(validation_metrics.map)])

validation_loss(validation_metrics) ==
    np_mean(DictValues(validation_metrics))

simulation_metrics_loss(sim_df, test_df) ==
    LET losses == [metric \in DOMAIN VALIDATION_METRICS.map |->
                      loss_function(VALIDATION_METRICS.map[metric],
                                    sim_df, test_df)]
    IN  IF \E metric \in DOMAIN losses : IsError(losses[metric])
        THEN losses[CHOOSE metric \in DOMAIN losses : IsError(losses[metric])]
        ELSE Dict(losses)

simulation_loss(sim_df, test_df) ==
    LET metrics_loss == simulation_metrics_loss(sim_df, test_df)
    IN  IF IsError(metrics_loss) THEN metrics_loss
        ELSE LET sim_loss == validation_loss(metrics_loss)
             IN  sim_loss

----------------------------------------------------------------------------
(* The loss functions under call *)

FloatSamples == {Float(0), Float(1)}

\* The trajectories: both metric columns with the same 0 .. MaxRows rows,
\* and the frame with no column at all.
Trajectories ==
    {DataFrame(<<>>)}
        \cup {DataFrame([metric \in DOMAIN VALIDATION_METRICS.map |->
                            IF metric = "redemption_price" THEN a ELSE b]) :
                 <<a, b>> \in UNION {[1 .. n -> FloatSamples]
                                        \X [1 .. n -> FloatSamples] :
                                     n \in 0 .. MaxRows}}

MetricMappings ==
    {EmptyDict,
     Dict("redemption_price" :> Float(0)),
     Dict("redemption_price" :> Float(0) @@ "redemption_rate" :> Float(1))}

LossInit ==
    /\ mode = "loss"
    /\ NoSim
    /\ args \in [sim_df : Trajectories, test_df : Trajectories,
                 validation_metrics : MetricMappings]
    /\ call = ""
    /\ locals = None
    /\ log = <<>>
    /\ result = None

Call_simulation_metrics_loss ==
    /\ mode = "loss"
    /\ call = ""
    /\ call' = "simulation_metrics_loss"
    /\ result' = simulation_metrics_loss(args.sim_df, args.test_df)
    /\ UNCHANGED <<mode, simVars, args, locals, log>>

Call_simulation_loss ==
    /\ mode = "loss"
    /\ call = ""
    /\ call' = "simulation_loss"
    /\ result' = simulation_loss(args.sim_df, args.test_df)
    /\ UNCHANGED <<mode, simVars, args, locals, log>>

Call_validation_loss ==
    /\ mode = "loss"
    /\ call = ""
    /\ call' = "validation_loss"
    /\ result' = validation_loss(args.validation_metrics)
    /\ UNCHANGED <<mode, simVars, args, locals, log>>

LossNext ==
    \/ Call_simulation_metrics_loss
    \/ Call_simulation_loss
    \/ Call_validation_loss

LossSpec == LossInit /\ [][LossNext]_vars

HasMetricColumns(df) == DOMAIN VALIDATION_METRICS.map \subseteq DOMAIN df.columns

\* The number of rows of a frame; the frame with no column has none.
Rows(df) ==
    IF DOMAIN df.columns = {} THEN 0
    ELSE Len(df.columns[CHOOSE col \in DOMAIN df.columns : TRUE])

ValidTrajectory(df) == HasMetricColumns(df) /\ Rows(df) >= 1

\* C6: for every valid trajectory A (the registered metric columns, at
\* least one row) simulation_loss(A, A) returns the scalar 0.
C6_IdenticalLossIsZero ==
    (/\ call = "simulation_loss"
     /\ ValidTrajectory(args.sim_df)
     /\ args.test_df = args.sim_df) =>
        result = Float(0)

\* C7: for aligned trajectories simulation_metrics_loss returns a mapping
\* whose keys are exactly the keys of VALIDATION_METRICS and whose every
\* value is one scalar, not a per-row column.
C7_MetricLossesAreScalars ==
    (/\ call = "simulation_metrics_loss"
     /\ HasMetricColumns(args.sim_df)
     /\ HasMetricColumns(args.test_df)
     /\ Rows(args.sim_df) = Rows(args.test_df)) =>
        /\ result.py = "dict"
        /\ DOMAIN result.map = DOMAIN VALIDATION_METRICS.map
        /\ \A metric \in DOMAIN result.map : result.map[metric].py = "float"

\* C8: validation_loss on an empty metric mapping and simulation_loss on a
\* truth trajectory of zero rows end in an error, never in a loss value.
C8_EmptyInputsAreRejected ==
    /\ (call = "validation_loss" /\ args.validation_metrics = EmptyDict) =>
          IsError(result)
    /\ (call = "simulation_loss" /\ Rows(args.test_df) = 0) =>
          IsError(result)

\* simulation_loss was called on two rows against a truth of no rows.
C8_Witness ==
    /\ call = "simulation_loss"
    /\ HasMetricColumns(args.test_df)
    /\ Rows(args.test_df) = 0
    /\ Rows(args.sim_df) = 2
    /\ result = Error("TypeError")

----------------------------------------------------------------------------
(* retrieve_data.py: retrieve_system_states *)

\* The calls request 0 .. MaxBlocks blocks.
MaxBlocks == 4

\* The systemState answers of the subgraph: each nested object is there
\* or null.
SystemStates ==
    [coinUniswapPair : {None, [py |-> "dict", reserve0 |-> 5, reserve1 |-> 6]},
     currentRedemptionRate : {None, [py |-> "dict", annualizedRate |-> 1]}]

BlockNumberLists == {[i \in 1 .. n |-> 100 + i] : n \in 0 .. MaxBlocks}

RetrieveInit ==
    /\ mode = "retrieve_system_states"
    /\ NoSim
    /\ args \in [block_numbers : BlockNumberLists]
    /\ call = "retrieve_system_states"
    /\ locals = [pc |-> "loop", i |-> 1, state |-> <<>>, null_count |-> 0]
    /\ log = <<>>
    /\ result = None

\* One iteration of the loop over block_numbers, s the parsed answer.
RetrieveIteration(s) ==
    LET block_number == args.block_numbers[locals.i]
        row == [block_number |-> block_number,
                coinUniswapPair |-> s.coinUniswapPair,
                currentRedemptionRate |-> s.currentRedemptionRate]
    IN  /\ locals' =
              IF row.coinUniswapPair # None
              THEN [locals EXCEPT !.i = @ + 1, !.state = Append(@, row)]
              ELSE [locals EXCEPT !.i = @ + 1, !.null_count = @ + 1]
        /\ UNCHANGED <<mode, simVars, args, call, log, result>>

RetrieveLoop ==
    /\ mode = "retrieve_system_states"
    /\ locals.pc = "loop"
    /\ locals.i <= Len(args.block_numbers)
    /\ \E s \in SystemStates : RetrieveIteration(s)

\* next(null_count) - 1: the counter holds the number of its past next()s.
NullRows(null_count) == null_count - 1

\* The logged warning, its percentage kept as <<numerator, denominator>>.
NullRowsWarning(null_rows, state_rows) ==
    [level |-> "warning", null_rows |-> null_rows,
     proportion |-> <<null_rows, Len(state_rows) + null_rows>>]

\* The frame built from the kept rows: set_index('block_number') raises
\* KeyError on a frame without rows, and extracting annualizedRate from a
\* null currentRedemptionRate raises TypeError.
SystemStateFrame(state_rows) ==
    IF state_rows = <<>> THEN Error("KeyError")
    ELSE IF \E k \in 1 .. Len(state_rows) :
                state_rows[k].currentRedemptionRate = None
    THEN Error("TypeError")
    ELSE [py |-> "DataFrame",
          index |-> [k \in 1 .. Len(state_rows) |-> state_rows[k].block_number]]

\* After the loop: the warning, then the frame.
RetrieveFinish ==
    /\ mode = "retrieve_system_states"
    /\ locals.pc = "loop"
    /\ locals.i > Len(args.block_numbers)
    /\ LET null_rows == NullRows(locals.null_count)
       IN  /\ log' = IF null_rows > 0
                     THEN Append(log, NullRowsWarning(null_rows, locals.state))
                     ELSE log
           /\ locals' = [locals EXCEPT !.pc = "done",
                                       !.null_count = @ + 1]
    /\ result' = SystemStateFrame(locals.state)
    /\ UNCHANGED <<mode, simVars, args, call>>

RetrieveNext == RetrieveLoop \/ RetrieveFinish

RetrieveSpec == RetrieveInit /\ [][RetrieveNext]_vars

\* The rows the loop dropped.
DroppedRows == Len(args.block_numbers) - Len(locals.state)

\* C9: retrieve_system_states drops the rows whose nested data is absent
\* without failing; when it dropped at least one row it logs one warning
\* whose count is the number of dropped rows and whose proportion is that
\* number over the number of requested rows; when it dropped none it logs
\* nothing.
C9_DropWarningCountsDroppedRows ==
    (mode = "retrieve_system_states" /\ locals.pc = "done") =>
        /\ DroppedRows >= 1 =>
              /\ ~IsError(result)
              /\ Len(log) = 1
              /\ log[1].null_rows = DroppedRows
              /\ log[1].proportion[2] > 0
              /\ log[1].proportion[1] * Len(args.block_numbers)
                     = DroppedRows * log[1].proportion[2]
        /\ DroppedRows = 0 => log = <<>>

----------------------------------------------------------------------------
(* retrieve_data.py: yield_hourly_stats *)

\* The remote source answers up to MaxPages requests with records.
MaxPages == 3

FeedSizes == {1, 2}

\* hourlyStats(first, skip): the remote answers the k-th page of `first`
\* records with remote[k] records, and with none past its last page.
HourlyStats(remote, first, skip) ==
    LET k == (skip \div first) + 1
        n == IF k <= Len(remote) THEN remote[k] ELSE 0
    IN  [i \in 1 .. n |-> [blockNumber |-> skip + i]]

HourlyInit ==
    /\ mode = "yield_hourly_stats"
    /\ NoSim
    /\ \E feed_size \in FeedSizes : \E n \in 0 .. MaxPages :
          args \in [feed_size : {feed_size},
                    remote : [1 .. n -> 0 .. feed_size]]
    /\ call = "yield_hourly_stats"
    /\ locals = [pc |-> "running", counter |-> 0, requests |-> <<>>,
                 yielded |-> <<>>]
    /\ log = <<>>
    /\ result = None

Position_skip_first(counter, feed_size) == (counter + 1) * feed_size

\* position = next(counter) * feed_size
Position(counter, feed_size) == counter * feed_size

\* The consumer resumes the generator: one pass of its loop, to the yield
\* of a page or to the break.
HourlyResume ==
    /\ mode = "yield_hourly_stats"
    /\ locals.pc = "running"
    /\ LET position == Position(locals.counter, args.feed_size)
           s == HourlyStats(args.remote, args.feed_size, position)
       IN  locals' =
               IF Len(s) > 0
               THEN [locals EXCEPT !.counter = @ + 1,
                                   !.requests = Append(@, position),
                                   !.yielded = Append(@, s)]
               ELSE [locals EXCEPT !.counter = @ + 1,
                                   !.requests = Append(@, position),
                                   !.pc = "finished"]
    /\ UNCHANGED <<mode, simVars, args, call, log, result>>

HourlyNext == HourlyResume

\* The consumer (the sum over the generator) resumes it until it ends.
HourlySpec == HourlyInit /\ [][HourlyNext]_vars /\ WF_vars(HourlyResume)

\* The first request the remote answers with no record.
FirstEmptyPage(remote) ==
    CHOOSE k \in 1 .. (Len(remote) + 1) :
        /\ k > Len(remote) \/ remote[k] = 0
        /\ \A j \in 1 .. (k - 1) : remote[j] > 0

HourlyPagesInOrder ==
    mode = "yield_hourly_stats" =>
        /\ locals.requests
               = [k \in 1 .. Len(locals.requests) |-> (k - 1) * args.feed_size]
        /\ \A k \in 1 .. Len(locals.yielded) :
              /\ locals.yielded[k]
                     = HourlyStats(args.remote, args.feed_size,
                                   (k - 1) * args.feed_size)
              /\ Len(locals.yielded[k]) > 0
        /\ locals.pc = "running" =>
              /\ Len(locals.requests) = Len(locals.yielded)
              /\ Len(locals.yielded) < FirstEmptyPage(args.remote)
        /\ locals.pc = "finished" =>
              /\ Len(locals.requests) = FirstEmptyPage(args.remote)
              /\ Len(locals.yielded) = FirstEmptyPage(args.remote) - 1

\* C10: yield_hourly_stats requests the offsets 0, feed_size, 2 *
\* feed_size, ... in order, yields each non-empty page in request order,
\* ends right after the first empty page with no further request, and,
\* the remote answering an empty page at some offset, does end, having
\* yielded exactly the pages before that one.
C10_PaginationEndsAtFirstEmptyPage ==
    /\ []HourlyPagesInOrder
    /\ [][locals.pc = "finished" => locals' = locals]_vars
    /\ <>(locals.pc = "finished")

\* The generator has ended after two pages and an empty third answer.
C10_Witness ==
    /\ mode = "yield_hourly_stats"
    /\ locals.pc = "finished"
    /\ args.feed_size = 2
    /\ Len(args.remote) = 3
    /\ args.remote[3] = 0
    /\ Len(locals.yielded) = 2
    /\ locals.requests = <<0, 2, 4>>

----------------------------------------------------------------------------
(* The history handed to the prediction collaborator *)

Extrapolation == mode = "simulation" /\ params.perform_backtesting = "False"

\* C11: in extrapolation mode every step passes to fit_predict_action an
\* ordered sequence of action-state records, one for each row recorded
\* before the step, the state the step starts from last, together with
\* params['user_action_params'], and p_user_action returns the
\* collaborator's result as the token_state of its signal.
C11_HistoryPassedToCollaborator ==
    (Extrapolation /\ StepHasRun) =>
        /\ call = "fit_predict_action"
        /\ args.user_action_params = params.user_action_params
        /\ signals.user_action = Dict("token_state" :> result)
        /\ args.states.py = "list"
        /\ Len(args.states.items) = Len(history) - 1
        /\ \A k \in 1 .. (Len(history) - 1) :
              args.states.items[k].token_state = history[k].token_state

====
